---- MODULE Spec2Model ----
(***************************************************************************)
(* Forecast-to-allocation pipeline of last-mile-delivery-forecasting:      *)
(*   forecasting.forecast_demand            -> forecast table               *)
(*   optimization.optimize_driver_allocation -> allocation + objective     *)
(*   kpi_calculation.compute_kpis           -> KPI set                      *)
(*                                                                         *)
(* Timestamps are whole hours (integers).  forecast_orders is a float in   *)
(* the code; here it is a rational with denominator Scale, stored by its   *)
(* numerator (forecast_orders = 1 means 1/Scale of an order).  drivers and *)
(* late_orders are integer variables of the solver (IntVar).               *)
(***************************************************************************)
EXTENDS Integers, Sequences, FiniteSets, TLC

\* ---------------------------------------------------------------- bounds
Scale == 2
MaxVar == 2
MaxRows == 2
MaxPeriods == 2
MaxHours == 2

ZoneIds == {1, 2}
TimeSet == {1, 2}
\* <<cost_per_driver, late_penalty>>
ObjectiveSet == {<<3, 5>>, <<3, 1>>, <<3, 0>>, <<0, 1>>, <<-1, 5>>, <<3, -1>>}
CapacitySet == {1, 2}

VARIABLES
    pc,           \* position in the pipeline
    request,      \* arguments of the forecast_demand call that built forecast_df
    forecast_df,  \* forecast table: sequence of rows
    args,         \* keyword arguments of optimize_driver_allocation
    hours,        \* optimization.py:43
    zones,        \* optimization.py:44
    var_keys,     \* keys of the drivers / late_orders dicts, in insertion order
    constraints,  \* constraints added to the solver so far
    status,       \* result status of solver.Solve()
    solution,     \* solution_value() of every variable, by key
    results_df,   \* returned allocation table
    total_cost,   \* returned objective value
    kpis,         \* dict returned by compute_kpis
    outcome       \* how the last call ended

vars == <<pc, request, forecast_df, args, hours, zones, var_keys, constraints,
          status, solution, results_df, total_cost, kpis, outcome>>

\* ------------------------------------------------------- sequence helpers
Min(a, b) == IF a <= b THEN a ELSE b
Max(a, b) == IF a >= b THEN a ELSE b

Range(s) == {s[i] : i \in 1..Len(s)}

Contains(s, x) == \E i \in 1..Len(s) : s[i] = x

\* Series.unique(): distinct values in order of first appearance
RECURSIVE UniqueFrom(_, _, _)
UniqueFrom(s, i, acc) ==
    IF i > Len(s) THEN acc
    ELSE UniqueFrom(s, i + 1, IF Contains(acc, s[i]) THEN acc ELSE Append(acc, s[i]))

Unique(s) == UniqueFrom(s, 1, <<>>)

\* Python slice s[:n]
Take(s, n) ==
    IF n >= 0 THEN SubSeq(s, 1, Min(n, Len(s)))
    ELSE SubSeq(s, 1, Max(Len(s) + n, 0))

Column(df, name) == [i \in 1..Len(df) |-> df[i][name]]

RECURSIVE SumSeq(_, _)
SumSeq(s, i) == IF i > Len(s) THEN 0 ELSE s[i] + SumSeq(s, i + 1)

\* Series.sum()
Sum(s) == SumSeq(s, 1)

\* ------------------------------------------------------- forecast_demand
\* pd.date_range(start=start_timestamp, periods=periods, freq="h")
DateRange(start, periods) == [i \in 1..periods |-> start + (i - 1)]

\* a slip: the index tiled instead of repeated element by element
RepeatAsTile(s, n) == [k \in 1..(Len(s) * n) |-> s[((k - 1) % Len(s)) + 1]]

\* Index.repeat(n): every element n times in a row
Repeat(s, n) == [k \in 1..(Len(s) * n) |-> s[((k - 1) \div n) + 1]]

\* list * n: the whole list n times over
Tile(s, n) == [k \in 1..(Len(s) * n) |-> s[((k - 1) % Len(s)) + 1]]

\* calendar feature of a timestamp
HourOfDay(ts) == ts % 24

\* a fitted regression model: a function of the feature row, of which the
\* hour and the zone_id tell the rows of a short horizon apart
ModelSet ==
    {[f \in (0..23) \X ZoneIds |-> (a * f[1] + b * f[2] + c) % 3] :
        a \in {0, 1}, b \in {0, 1}, c \in {0, 1, 2}}

\* predicted forecast_orders: nothing, 1/Scale of an order, or 2 orders
DemandOfLevel(level) == IF level = 0 THEN 0 ELSE IF level = 1 THEN 1 ELSE 2 * Scale

\* model.predict on one feature row
Predict(model, hour, zone) == DemandOfLevel(model[<<hour, zone>>])

ForecastGrid(model, zone_list, periods, start) ==
    LET future == DateRange(start, periods)
        tcol   == Repeat(future, Len(zone_list))
        zcol   == Tile(zone_list, Len(future))
    IN  [k \in 1..Len(tcol) |->
            [timestamp       |-> tcol[k],
             zone_id         |-> zcol[k],
             forecast_orders |-> Predict(model, HourOfDay(tcol[k]), zcol[k])]]

\* lists of distinct zones (the zones argument)
ZoneLists ==
    {s \in UNION {[1..n -> ZoneIds] : n \in 0..Cardinality(ZoneIds)} :
        \A i, j \in 1..Len(s) : i # j => s[i] # s[j]}

\* ------------------------------------------- optimize_driver_allocation
Row(t, z, d) == [timestamp |-> t, zone_id |-> z, forecast_orders |-> d]

\* rows of a hand-built table: no demand or a fraction of an order
RowSet == {Row(t, z, d) : t \in TimeSet, z \in ZoneIds, d \in {0, 1}}

\* forecast tables built by hand or filtered upstream, in any row order
Tables == UNION {[1..n -> RowSet] : n \in 0..MaxRows}

ArgSet ==
    {[cost_per_driver     |-> o[1],
      late_penalty        |-> o[2],
      capacity_per_driver |-> c,
      hours_to_optimize   |-> n] :
        o \in ObjectiveSet, c \in CapacitySet, n \in 0..MaxHours}

\* forecast_df["timestamp"].unique()[:hours_to_optimize]
HorizonHours(df, n) == Take(Unique(Column(df, "timestamp")), n)

\* forecast_df["zone_id"].unique()
AllZones(df) == Unique(Column(df, "zone_id"))

\* a slip: for h, z in zip(hours, zones)
KeyPairsZipped(hs, zs) ==
    [k \in 1..Min(Len(hs), Len(zs)) |-> <<hs[k], zs[k]>>]

\* for h in hours: for z in zones: the (h, z) pairs in loop order
KeyPairs(hs, zs) ==
    [k \in 1..(Len(hs) * Len(zs)) |->
        <<hs[((k - 1) \div Len(zs)) + 1], zs[((k - 1) % Len(zs)) + 1]>>]

\* rows selected by the boolean mask (timestamp == h) & (zone_id == z)
Matching(df, h, z) ==
    SelectSeq(df, LAMBDA r : r.timestamp = h /\ r.zone_id = z)

\* a slip: an empty selection read as zero demand
FirstValueOrZero(df, key) ==
    LET m == Matching(df, key[1], key[2])
    IN  [found |-> TRUE,
         value |-> IF Len(m) > 0 THEN m[1].forecast_orders ELSE 0]

\* [...]["forecast_orders"].values[0]: the first selected value; IndexError
\* (found = FALSE) on an empty selection
FirstValue(df, key) ==
    LET m == Matching(df, key[1], key[2])
    IN  [found |-> Len(m) > 0,
         value |-> IF Len(m) > 0 THEN m[1].forecast_orders ELSE 0]

\* number of constraints added before the loop ends or raises
RECURSIVE AddedUpTo(_, _, _)
AddedUpTo(df, keys, i) ==
    IF i > Len(keys) \/ ~FirstValue(df, keys[i]).found THEN i - 1
    ELSE AddedUpTo(df, keys, i + 1)

\* a slip: the constraint added with the opposite sense
ConstraintReversed(d, l, cap, demand) == (d * cap + l) * Scale <= demand

\* drivers[h, z] * capacity_per_driver + late_orders[h, z] >= demand
ConstraintHolds(d, l, cap, demand) == (d * cap + l) * Scale >= demand

\* ------------------------------------------------------------- the solver
\* IntVar(0, solver.infinity()): integer values, cut off at MaxVar (every
\* forecast is at most 2 orders, so 2 drivers or 2 late orders cover it)
VarRange == 0..MaxVar

VarPairs == [drivers : VarRange, late_orders : VarRange]

\* the values of one (drivers, late_orders) pair that satisfy every
\* constraint added for its key
FeasiblePairs(key, cons, cap) ==
    {v \in VarPairs :
        \A i \in 1..Len(cons) :
            cons[i].key = key =>
                ConstraintHolds(v.drivers, v.late_orders, cap, cons[i].demand)}

\* objective coefficients: cost_per_driver on drivers[h, z], late_penalty
\* on late_orders[h, z]
PairCost(v, cost, penalty) == cost * v.drivers + penalty * v.late_orders

\* a slip: objective.SetMaximization()
Worst(values) == CHOOSE v \in values : \A w \in values : v >= w

\* objective.SetMinimization()
Best(values) == CHOOSE v \in values : \A w \in values : v <= w

\* No constraint couples two keys and the objective is a sum over the keys,
\* so an assignment is optimal exactly when every pair is optimal for its
\* own key.
OptimalPairs(key, cons, cap, cost, penalty) ==
    LET feas == FeasiblePairs(key, cons, cap)
        best == Best({PairCost(v, cost, penalty) : v \in feas})
    IN  {v \in feas : PairCost(v, cost, penalty) = best}

RECURSIVE OptimalFrom(_, _, _, _, _, _)
OptimalFrom(keys, i, cons, cap, cost, penalty) ==
    IF i > Len(keys) THEN {<<>>}
    ELSE {<<v>> \o rest :
            v \in OptimalPairs(keys[i], cons, cap, cost, penalty),
            rest \in OptimalFrom(keys, i + 1, cons, cap, cost, penalty)}

\* the assignments solver.Solve() may return with status OPTIMAL; the k-th
\* element holds the values of the variables of keys[k]
OptimalAssignments(keys, cons, cap, cost, penalty) ==
    OptimalFrom(keys, 1, cons, cap, cost, penalty)

\* objective.Value() at an assignment
ObjectiveOf(a, cost, penalty) ==
    Sum([k \in 1..Len(a) |-> PairCost(a[k], cost, penalty)])

\* every variable is unbounded above and every constraint is a >=, so the
\* minimisation is unbounded exactly when a variable has a negative
\* coefficient; late_orders absorbs any demand, so it is never infeasible
SolveStatus(keys, cost, penalty) ==
    IF Len(keys) > 0 /\ (cost < 0 \/ penalty < 0) THEN "UNBOUNDED" ELSE "OPTIMAL"

\* solution_value() of every variable when the solver holds no solution
NoSolution(keys) == [k \in 1..Len(keys) |-> [drivers |-> 0, late_orders |-> 0]]

\* one result row per key of the drivers dict, in insertion order
ResultRows(keys, sol) ==
    [k \in 1..Len(keys) |->
        [timestamp   |-> keys[k][1],
         zone_id     |-> keys[k][2],
         drivers     |-> sol[k].drivers,
         late_orders |-> sol[k].late_orders]]

\* ------------------------------------------------------------ compute_kpis
\* numpy float division a / b followed by 1 - q.  a is a count of orders,
\* b a forecast total in 1/Scale orders
OnTimeRate(total_late, total_forecast) ==
    IF total_forecast # 0
    THEN [tag |-> "finite",
          num |-> total_forecast - Scale * total_late,
          den |-> total_forecast]
    ELSE IF total_late = 0 THEN [tag |-> "nan", num |-> 0, den |-> 0]
    ELSE IF total_late > 0 THEN [tag |-> "-inf", num |-> 0, den |-> 0]
    ELSE [tag |-> "inf", num |-> 0, den |-> 0]

ComputeKpisOf(res, df) ==
    LET total_forecast == Sum(Column(df, "forecast_orders"))
        total_late     == Sum(Column(res, "late_orders"))
        total_drivers  == Sum(Column(res, "drivers"))
    IN  [total_cost   |-> "None",
         late_orders  |-> total_late,
         driver_hours |-> total_drivers,
         on_time_rate |-> OnTimeRate(total_late, total_forecast)]

\* the rows of the forecast table that belong to the optimized horizon
HorizonSlice(df, hs) == SelectSeq(df, LAMBDA r : Contains(hs, r.timestamp))

NoKpis ==
    [total_cost |-> "None", late_orders |-> 0, driver_hours |-> 0,
     on_time_rate |-> [tag |-> "unset", num |-> 0, den |-> 0]]

NoRequest == [given |-> FALSE, zones |-> <<>>, periods |-> 0, start |-> 0]

NoArgs ==
    [cost_per_driver |-> 0, late_penalty |-> 0, capacity_per_driver |-> 1,
     hours_to_optimize |-> 0]

\* ------------------------------------------------------------------ state
Init ==
    /\ pc = "start"
    /\ request = NoRequest
    /\ forecast_df = <<>>
    /\ args = NoArgs
    /\ hours = <<>>
    /\ zones = <<>>
    /\ var_keys = <<>>
    /\ constraints = <<>>
    /\ status = "NOT_SOLVED"
    /\ solution = <<>>
    /\ results_df = <<>>
    /\ total_cost = 0
    /\ kpis = NoKpis
    /\ outcome = "none"

\* forecast_demand(model, zones, periods, start_timestamp) with a start
ForecastDemand ==
    /\ pc = "start"
    /\ \E model \in ModelSet, zl \in ZoneLists, periods \in 0..MaxPeriods,
          start \in TimeSet :
          /\ forecast_df' = ForecastGrid(model, zl, periods, start)
          /\ request' = [given |-> TRUE, zones |-> zl, periods |-> periods,
                         start |-> start]
    /\ pc' = "forecast"
    /\ outcome' = "forecast_returned"
    /\ UNCHANGED <<args, hours, zones, var_keys, constraints, status, solution,
                   results_df, total_cost, kpis>>

\* forecast_demand with start_timestamp=None: raise ValueError
ForecastDemandNoStart ==
    /\ pc = "start"
    /\ pc' = "error"
    /\ outcome' = "ValueError"
    /\ UNCHANGED <<request, forecast_df, args, hours, zones, var_keys,
                   constraints, status, solution, results_df, total_cost, kpis>>

\* the caller hands optimize_driver_allocation a table of its own
LoadForecast ==
    /\ pc = "start"
    /\ \E t \in Tables : forecast_df' = t
    /\ pc' = "forecast"
    /\ outcome' = "none"
    /\ UNCHANGED <<request, args, hours, zones, var_keys, constraints, status,
                   solution, results_df, total_cost, kpis>>

\* optimize_driver_allocation, lines 42-65: horizon, variables, constraints
Formulate ==
    /\ pc = "forecast"
    /\ \E a \in ArgSet :
          LET hs   == HorizonHours(forecast_df, a.hours_to_optimize)
              zs   == AllZones(forecast_df)
              keys == KeyPairs(hs, zs)
              n    == AddedUpTo(forecast_df, keys, 1)
          IN  /\ args' = a
              /\ hours' = hs
              /\ zones' = zs
              /\ var_keys' = keys
              /\ constraints' =
                    [i \in 1..n |->
                        [key    |-> keys[i],
                         demand |-> FirstValue(forecast_df, keys[i]).value]]
              /\ IF n = Len(keys)
                 THEN pc' = "formulated" /\ outcome' = "none"
                 ELSE pc' = "error" /\ outcome' = "IndexError"
    /\ UNCHANGED <<request, forecast_df, status, solution, results_df,
                   total_cost, kpis>>

\* lines 67-90: objective, SetMinimization, solver.Solve(), then results_df
\* and objective.Value() are returned, whatever status Solve() reported
SolveAndReturn ==
    /\ pc = "formulated"
    /\ status' = SolveStatus(var_keys, args.cost_per_driver, args.late_penalty)
    /\ IF status' = "OPTIMAL"
       THEN \E a \in OptimalAssignments(var_keys, constraints,
                        args.capacity_per_driver, args.cost_per_driver,
                        args.late_penalty) :
                /\ solution' = a
                /\ total_cost' = ObjectiveOf(a, args.cost_per_driver,
                                             args.late_penalty)
       ELSE /\ solution' = NoSolution(var_keys)
            /\ total_cost' = 0
    /\ results_df' = ResultRows(var_keys, solution')
    /\ pc' = "done"
    /\ outcome' = "returned"
    /\ UNCHANGED <<request, forecast_df, args, hours, zones, var_keys,
                   constraints, kpis>>

\* compute_kpis(results_df, forecast): the caller passes the whole table or
\* the slice that was optimized
ComputeKpis ==
    /\ pc = "done"
    /\ \E df \in {forecast_df, HorizonSlice(forecast_df, hours)} :
          kpis' = ComputeKpisOf(results_df, df)
    /\ pc' = "kpis"
    /\ UNCHANGED <<request, forecast_df, args, hours, zones, var_keys,
                   constraints, status, solution, results_df, total_cost, outcome>>

Next ==
    \/ ForecastDemand
    \/ ForecastDemandNoStart
    \/ LoadForecast
    \/ Formulate
    \/ SolveAndReturn
    \/ ComputeKpis

Spec == Init /\ [][Next]_vars

\* ================================================================ claims
\* optimize_driver_allocation has just returned results_df and total_cost
Returned == pc = "done"

NonNegativeCosts == args.cost_per_driver >= 0 /\ args.late_penalty >= 0

TimestampsOf(df) == {df[i].timestamp : i \in 1..Len(df)}

ZoneIdsOf(df) == {df[i].zone_id : i \in 1..Len(df)}

RowsAt(df, h, z) == {i \in 1..Len(df) : df[i].timestamp = h /\ df[i].zone_id = z}

\* the table holds exactly one row for every (hour, zone) pair of its
\* timestamps and zones
FullGrid(df) ==
    \A h \in TimestampsOf(df), z \in ZoneIdsOf(df) : Cardinality(RowsAt(df, h, z)) = 1

\* C1: on a full-grid forecast with non-negative costs and positive
\* capacity, every returned row has drivers >= 0, late_orders >= 0 and
\* drivers * capacity_per_driver + late_orders >= forecast_orders of its
\* (hour, zone).
FeasibilityLaw ==
    (Returned /\ NonNegativeCosts /\ args.capacity_per_driver > 0
        /\ FullGrid(forecast_df)) =>
        \A i \in 1..Len(results_df) :
            LET r == results_df[i]
            IN  /\ r.drivers >= 0
                /\ r.late_orders >= 0
                /\ \A j \in RowsAt(forecast_df, r.timestamp, r.zone_id) :
                      (r.drivers * args.capacity_per_driver + r.late_orders) * Scale
                          >= forecast_df[j].forecast_orders

\* a 2 x 2 horizon was solved: two drivers cover 2 orders on one pair, one
\* driver covers a fraction of an order on another
FeasibilityWitness ==
    /\ Returned /\ NonNegativeCosts /\ FullGrid(forecast_df)
    /\ Len(results_df) = 4
    /\ \E i, j \in 1..Len(results_df) :
          /\ results_df[i].drivers = 2 /\ results_df[i].late_orders = 0
          /\ results_df[j].drivers = 1 /\ results_df[j].late_orders = 0

\* some (hour, zone) pair of the truncated horizon and the zones present has
\* no forecast row
GridGap ==
    \E h \in Range(hours), z \in ZoneIdsOf(forecast_df) :
        RowsAt(forecast_df, h, z) = {}

\* C2: when a pair of the horizon x zones cross product has no forecast
\* row, the call ends in IndexError during constraint building: the solver
\* was never invoked, nothing was returned, and no constraint was added for
\* the missing pair.
MissingPairRaises ==
    (pc \in {"formulated", "done", "kpis", "error"} /\ GridGap) =>
        /\ pc = "error"
        /\ outcome = "IndexError"
        /\ status = "NOT_SOLVED"
        /\ results_df = <<>>
        /\ total_cost = 0
        /\ \A i \in 1..Len(constraints) :
              RowsAt(forecast_df, constraints[i].key[1], constraints[i].key[2]) # {}

\* the lookup failed after a first constraint had been added
MissingPairWitness ==
    /\ GridGap
    /\ outcome = "IndexError"
    /\ Len(constraints) >= 1
    /\ Len(var_keys) > Len(constraints)

\* C3: a non-optimal solver status is surfaced as an error and no
\* allocation is returned.
NonOptimalSurfaced ==
    status \in {"UNBOUNDED", "INFEASIBLE"} => outcome # "returned"

\* the k smallest elements of a set of timestamps
Smallest(T, k) == {t \in T : Cardinality({u \in T : u < t}) < k}

\* C4: whatever the row order, the optimized hours are the
\* hours_to_optimize smallest distinct timestamps of the table, and the
\* zones are all the zone ids of the table.
HorizonIsSmallest ==
    pc \in {"formulated", "done", "kpis"} =>
        /\ Range(hours) =
              Smallest(TimestampsOf(forecast_df), args.hours_to_optimize)
        /\ Range(zones) = ZoneIdsOf(forecast_df)

\* C5: with non-negative costs the late_orders KPI is at most the forecast
\* demand summed over the optimized horizon.
LateAtMostDemand ==
    (pc = "kpis" /\ NonNegativeCosts) =>
        kpis.late_orders * Scale
            <= Sum(Column(HorizonSlice(forecast_df, hours), "forecast_orders"))

\* C6: on_time_rate lies in [0, 1] whenever the forecast total is positive.
OnTimeRateInUnitInterval ==
    (pc = "kpis" /\ kpis.on_time_rate.den > 0) =>
        /\ kpis.on_time_rate.tag = "finite"
        /\ 0 <= kpis.on_time_rate.num
        /\ kpis.on_time_rate.num <= kpis.on_time_rate.den

\* C7: with a zero forecast total compute_kpis returns the not-a-number
\* sentinel as on_time_rate, and late_orders and driver_hours are the sums
\* over the allocation.
ZeroForecastGivesSentinel ==
    (pc = "kpis" /\ kpis.on_time_rate.den = 0) =>
        /\ kpis.on_time_rate.tag = "nan"
        /\ kpis.late_orders = Sum(Column(results_df, "late_orders"))
        /\ kpis.driver_hours = Sum(Column(results_df, "drivers"))

\* C8: on a full-grid forecast with non-negative costs the returned
\* objective value is cost_per_driver * sum(drivers) + late_penalty *
\* sum(late_orders), and no non-negative values satisfying the demand
\* constraints cost less.  The constraints couple no two (hour, zone) pairs
\* and the objective is a sum over the pairs, so an assignment of lower
\* total value would have a lower value at some pair: the comparison is
\* made pair by pair.
CostMinimal ==
    (Returned /\ NonNegativeCosts /\ args.capacity_per_driver > 0
        /\ FullGrid(forecast_df)) =>
        /\ total_cost =
              args.cost_per_driver * Sum(Column(results_df, "drivers"))
                + args.late_penalty * Sum(Column(results_df, "late_orders"))
        /\ \A i \in 1..Len(results_df) :
              LET r      == results_df[i]
                  demand == forecast_df[CHOOSE j \in 1..Len(forecast_df) :
                                /\ forecast_df[j].timestamp = r.timestamp
                                /\ forecast_df[j].zone_id = r.zone_id].forecast_orders
                  value  == args.cost_per_driver * r.drivers
                              + args.late_penalty * r.late_orders
              IN  \A d, l \in 0..MaxVar :
                      (d * args.capacity_per_driver + l) * Scale >= demand
                      => args.cost_per_driver * d + args.late_penalty * l >= value

\* demand of 2 orders on each pair of 2 zones x 2 hours, capacity 1,
\* cost 3, penalty 5: 2 drivers and no late order everywhere, objective 24
CostMinimalWitness ==
    /\ Returned /\ FullGrid(forecast_df)
    /\ args.cost_per_driver = 3 /\ args.late_penalty = 5
    /\ args.capacity_per_driver = 1
    /\ Len(results_df) = 4
    /\ \A i \in 1..Len(forecast_df) : forecast_df[i].forecast_orders = 2 * Scale
    /\ \A i \in 1..Len(results_df) :
          results_df[i].drivers = 2 /\ results_df[i].late_orders = 0
    /\ total_cost = 24

\* C9: the table forecast_demand returns has periods * |zones| rows and
\* holds every (hour, zone) pair of the requested grid exactly once.
ForecastGridComplete ==
    request.given =>
        /\ Len(forecast_df) = request.periods * Len(request.zones)
        /\ \A p \in 1..request.periods, z \in Range(request.zones) :
              Cardinality(RowsAt(forecast_df, request.start + (p - 1), z)) = 1

\* a grid of two periods and two zones was forecast
ForecastGridWitness ==
    /\ request.given
    /\ request.periods = 2
    /\ Len(request.zones) = 2
    /\ Len(forecast_df) = 4

\* C10: a returned allocation has exactly one row for every (hour, zone)
\* pair of the truncated horizon and the zones present, and no other row,
\* also when the forecast table repeats rows.
OneRowPerPair ==
    Returned =>
        /\ \A h \in Range(hours), z \in ZoneIdsOf(forecast_df) :
              Cardinality(RowsAt(results_df, h, z)) = 1
        /\ Len(results_df) =
              Cardinality(Range(hours)) * Cardinality(ZoneIdsOf(forecast_df))

\* an allocation was returned for a table that repeats a row
OneRowPerPairWitness ==
    /\ Returned
    /\ Len(results_df) = 1
    /\ \E i, j \in 1..Len(forecast_df) :
          /\ i # j
          /\ forecast_df[i].timestamp = forecast_df[j].timestamp
          /\ forecast_df[i].zone_id = forecast_df[j].zone_id

====
